---- MODULE Spec2Model ----
(***************************************************************************)
(* Model of scripts/freecloud_checkin.py: the run orchestrator (main), the *)
(* authentication flow (login_whmcs), the check-in executor                *)
(* (perform_checkin) and the helpers they call.                            *)
(*                                                                         *)
(* Text is a sequence of symbols.  An ASCII character is the one-character *)
(* string; a CJK character is the string "uXXXX" of its code point.        *)
(***************************************************************************)
EXTENDS Integers, Sequences, FiniteSets, TLC

\* ------------------------------------------------------------------ bounds
MaxAccounts == 2

\* --------------------------------------------------------------- constants
SUCCESS == "success"
ALREADY == "already"
TWO_FA == "2fa"
FAILED == "failed"
SKIPPED == "skipped"

\* ------------------------------------------------------------ text helpers
Chars(s) == [i \in 1..Len(s) |-> SubSeq(s, i, i)]

UpperLetters == Chars("ABCDEFGHIJKLMNOPQRSTUVWXYZ")
LowerLetters == Chars("abcdefghijklmnopqrstuvwxyz")
UpperSet == {UpperLetters[i] : i \in 1..26}
LowerMap == [c \in UpperSet |-> LowerLetters[CHOOSE i \in 1..26 : UpperLetters[i] = c]]
UpperMap == [c \in {LowerLetters[i] : i \in 1..26} |->
               UpperLetters[CHOOSE i \in 1..26 : LowerLetters[i] = c]]

\* str.lower() of one symbol, as re.I folds case
Lower(c) == IF c \in UpperSet THEN LowerMap[c] ELSE c
LowerSeq(t) == [i \in 1..Len(t) |-> Lower(t[i])]

\* the characters \s matches
WS == {" ", "\t", "\n", "\r", "\f"}

\* A regular expression is a sequence of items [neg, cs, q, stop]: a character
\* class cs (negated when neg) with quantifier q in {"1", "?", "*", "+"}; a
\* non-empty stop is a negative lookahead (?!stop) in front of the character.
\* Under re.I text and pattern are compared folded to lower case; lcs and lstop
\* are cs and stop folded.
Item(neg, cs, q, stop) ==
  <<[neg |-> neg, cs |-> cs, q |-> q, stop |-> stop,
     lcs |-> {Lower(c) : c \in cs}, lstop |-> LowerSeq(stop)]>>
One(cs) == Item(FALSE, cs, "1", <<>>)
Opt(cs) == Item(FALSE, cs, "?", <<>>)
Star(cs) == Item(FALSE, cs, "*", <<>>)
Plus(cs) == Item(FALSE, cs, "+", <<>>)
NotStar(cs) == Item(TRUE, cs, "*", <<>>)
NotPlus(cs) == Item(TRUE, cs, "+", <<>>)
\* (?:(?!stop).)* under re.S
AnyUntil(stop) == Item(TRUE, {}, "*", stop)
Lit(t) == [i \in 1..Len(t) |-> One({t[i]})[1]]
L(s) == Lit(Chars(s))

StartsAt(t, k, w) ==
  /\ k + Len(w) - 1 <= Len(t)
  /\ \A j \in 1..Len(w) : t[k + j - 1] = w[j]

\* item it accepts the character at position k of t (t folded when ci)
Hit(it, t, k, ci) ==
  /\ (t[k] \in (IF ci THEN it.lcs ELSE it.cs)) # it.neg
  /\ it.stop = <<>> \/ ~StartsAt(t, k, IF ci THEN it.lstop ELSE it.stop)

\* the positions at which a match of items i.. of p that starts at position k
\* of t may end (exclusive)
RECURSIVE MatchEnds(_, _, _, _, _)
MatchEnds(p, i, t, k, ci) ==
  IF i > Len(p) THEN {k}
  ELSE LET it == p[i]
           ok == k <= Len(t) /\ Hit(it, t, k, ci)
       IN  CASE it.q = "1" -> IF ok THEN MatchEnds(p, i + 1, t, k + 1, ci) ELSE {}
             [] it.q = "?" -> MatchEnds(p, i + 1, t, k, ci)
                              \cup (IF ok THEN MatchEnds(p, i + 1, t, k + 1, ci) ELSE {})
             [] it.q = "*" -> MatchEnds(p, i + 1, t, k, ci)
                              \cup (IF ok THEN MatchEnds(p, i, t, k + 1, ci) ELSE {})
             [] it.q = "+" -> IF ok THEN MatchEnds(p, i + 1, t, k + 1, ci)
                                         \cup MatchEnds(p, i, t, k + 1, ci)
                              ELSE {}

\* items i.. of p match t from position k on
RECURSIVE Matches(_, _, _, _, _)
Matches(p, i, t, k, ci) ==
  IF i > Len(p) THEN TRUE
  ELSE LET it == p[i]
           ok == k <= Len(t) /\ Hit(it, t, k, ci)
       IN  CASE it.q = "1" -> ok /\ Matches(p, i + 1, t, k + 1, ci)
             [] it.q = "?" -> (ok /\ Matches(p, i + 1, t, k + 1, ci)) \/ Matches(p, i + 1, t, k, ci)
             [] it.q = "*" -> (ok /\ Matches(p, i, t, k + 1, ci)) \/ Matches(p, i + 1, t, k, ci)
             [] it.q = "+" -> ok /\ (Matches(p, i, t, k + 1, ci) \/ Matches(p, i + 1, t, k + 1, ci))

Folded(t, ci) == IF ci THEN LowerSeq(t) ELSE t

\* re.search(p, t) is not None, for one pattern and for an alternation; ci is
\* the flag re.I
re_search(p, t, ci) ==
  LET tt == Folded(t, ci) IN \E k \in 1..(Len(t) + 1) : Matches(p, 1, tt, k, ci)
re_search_any(ps, t, ci) ==
  LET tt == Folded(t, ci) IN \E p \in ps : \E k \in 1..(Len(t) + 1) : Matches(p, 1, tt, k, ci)

Max(S) == CHOOSE m \in S : \A n \in S : n <= m
Min(S) == CHOOSE m \in S : \A n \in S : m <= n

\* m.group(1) of re.search(pre (grp) post, t), <<>> when there is no match: the
\* leftmost match, its quantifiers greedy
GroupSpans(pre, grp, post, t, k, ci) ==
  UNION { { <<s1, e1>> : e1 \in { e \in MatchEnds(grp, 1, t, s1, ci) :
                                    MatchEnds(post, 1, t, e, ci) # {} } } :
          s1 \in MatchEnds(pre, 1, t, k, ci) }

re_group(pre, grp, post, t, ci) ==
  LET tt == Folded(t, ci)
      ks == {k \in 1..(Len(t) + 1) : GroupSpans(pre, grp, post, tt, k, ci) # {}}
  IN  IF ks = {} THEN <<>>
      ELSE LET spans == GroupSpans(pre, grp, post, tt, Min(ks), ci)
               s0 == Max({se[1] : se \in spans})
               e0 == Max({se[2] : se \in {z \in spans : z[1] = s0}})
           IN  SubSeq(t, s0, e0 - 1)

\* a sequence of symbols as a string, and back with Chars
RECURSIVE Str(_)
Str(t) == IF t = <<>> THEN "" ELSE Head(t) \o Str(Tail(t))

\* ------------------------------------------------------ phrases (CJK text)
zh_erciyanzheng == <<"u4e8c", "u6b21", "u9a8c", "u8bc1">>
zh_erbuyanzheng == <<"u4e8c", "u6b65", "u9a8c", "u8bc1">>
zh_liangbuyanzheng == <<"u4e24", "u6b65", "u9a8c", "u8bc1">>
zh_yanzhengma == <<"u9a8c", "u8bc1", "u7801">>
zh_renjiyanzheng == <<"u4eba", "u673a", "u9a8c", "u8bc1">>
zh_jiqirenyanzheng == <<"u673a", "u5668", "u4eba", "u9a8c", "u8bc1">>
zh_anquanyanzheng == <<"u5b89", "u5168", "u9a8c", "u8bc1">>
zh_yiqiandao == <<"u5df2", "u7b7e", "u5230">>
zh_jinriyiqiandao == <<"u4eca", "u65e5", "u5df2", "u7b7e", "u5230">>
zh_qiandaochenggong == <<"u7b7e", "u5230", "u6210", "u529f">>
zh_chenggong == <<"u6210", "u529f">>
zh_qiandao == <<"u7b7e", "u5230">>
zh_chongfu == <<"u91cd", "u590d">>
zh_jifen == <<"u79ef", "u5206">>
zh_denglushibai == <<"u767b", "u5f55", "u5931", "u8d25">>
zh_youxianghuomimacuowu == <<"u90ae", "u7bb1", "u6216", "u5bc6", "u7801", "u9519", "u8bef">>
zh_tuichu == <<"u9000", "u51fa">>
zh_kehuzhongxin == <<"u5ba2", "u6237", "u4e2d", "u5fc3">>
zh_wodeziliao == <<"u6211", "u7684", "u8d44", "u6599">>
zh_fuwu == <<"u670d", "u52a1">>

\* ------------------------------------------------------ challenge detector
challenge_patterns ==
  { L("Two") \o Star(WS) \o L("Factor"),
    L("Two") \o Opt({"-"}) \o L("Factor"),
    Lit(zh_erciyanzheng),
    Lit(zh_erbuyanzheng),
    Lit(zh_liangbuyanzheng),
    Lit(zh_yanzhengma),
    Lit(zh_renjiyanzheng),
    Lit(zh_jiqirenyanzheng),
    L("hcaptcha"),
    L("recaptcha"),
    L("Please complete the security check"),
    L("Attention Required!") \o Star(WS) \o L("Cloudflare"),
    Lit(zh_anquanyanzheng) }

challenge_url_patterns ==
  { L("two") \o Opt({"-", "_"}) \o L("factor"), L("twofa"), L("2fa") }

is_2fa_or_human_challenge(text, url) ==
  IF text = <<>> THEN FALSE
  ELSE IF re_search_any(challenge_patterns, text, TRUE) THEN TRUE
  ELSE IF re_search_any(challenge_url_patterns, url, TRUE) THEN TRUE
  ELSE FALSE

\* ------------------------------------------------------------ HTML pages
\* A page is a sequence of nodes in document order.  A node is a run of text,
\* a link or button, a form with its inputs, or an input outside any form.
\* "" stands for an attribute the element does not carry.
TextNode(t) == [tag |-> "text", text |-> t, href |-> "", method |-> "", inputs |-> <<>>]
Link(href, t) == [tag |-> "a", text |-> t, href |-> href, method |-> "", inputs |-> <<>>]
Button(t) == [tag |-> "button", text |-> t, href |-> "", method |-> "", inputs |-> <<>>]
Form(action, method, inputs, t) ==
  [tag |-> "form", text |-> t, href |-> action, method |-> method, inputs |-> inputs]
Input(name, value) ==
  [tag |-> "input", text |-> <<>>, href |-> "", method |-> "",
   inputs |-> <<[name |-> name, value |-> value]>>]

RECURSIVE Concat(_)
Concat(ss) == IF ss = <<>> THEN <<>> ELSE Head(ss) \o Concat(Tail(ss))

Attr(name, v) == IF v = "" THEN <<>> ELSE Chars(" " \o name \o "=\"" \o v \o "\"")

\* an input element written otherwise than name before value in double
\* quotes: style "vn" has the value first, style "sq" single quotes
StyledInput(name, value, style) == [name |-> name, value |-> value, style |-> style]

RenderInput(inp) ==
  LET style == IF "style" \in DOMAIN inp THEN inp.style ELSE "nv"
  IN  CASE style = "vn" ->
             Chars("<input") \o Attr("value", inp.value) \o Attr("name", inp.name) \o Chars(">")
        [] style = "sq" ->
             Chars("<input name='" \o inp.name \o "' value='" \o inp.value \o "'>")
        [] OTHER ->
             Chars("<input") \o Attr("name", inp.name) \o Attr("value", inp.value) \o Chars(">")

\* the markup of one node, as the server sends it
RenderNode(n) ==
  CASE n.tag = "text" -> n.text
    [] n.tag = "a" -> Chars("<a") \o Attr("href", n.href) \o Chars(">") \o n.text \o Chars("</a>")
    [] n.tag = "button" -> Chars("<button>") \o n.text \o Chars("</button>")
    [] n.tag = "input" -> RenderInput(n.inputs[1])
    [] n.tag = "form" ->
         Chars("<form") \o Attr("action", n.href) \o Attr("method", n.method) \o Chars(">")
         \o Concat([i \in 1..Len(n.inputs) |-> RenderInput(n.inputs[i])])
         \o n.text \o Chars("</form>")

Render(nodes) == Concat([i \in 1..Len(nodes) |-> RenderNode(nodes[i])])

\* every input element of the page, in document order
AllInputs(nodes) == Concat([i \in 1..Len(nodes) |-> nodes[i].inputs])

\* str.strip()
RECURSIVE LStrip(_)
LStrip(t) == IF t # <<>> /\ Head(t) \in WS THEN LStrip(Tail(t)) ELSE t
RECURSIVE RStrip(_)
RStrip(t) == IF t # <<>> /\ t[Len(t)] \in WS THEN RStrip(SubSeq(t, 1, Len(t) - 1)) ELSE t
Strip(t) == LStrip(RStrip(t))

\* ------------------------------------------------------------ HTTP bodies
\* A body is HTML (its nodes) or JSON (a list, or a dict given as its
\* key/value pairs in order; ascii: non-ASCII characters are sent as \uXXXX).
HtmlBody(nodes) == [kind |-> "html", nodes |-> nodes, pairs |-> <<>>, ascii |-> FALSE]
JsonDict(pairs, ascii) == [kind |-> "dict", nodes |-> <<>>, pairs |-> pairs, ascii |-> ascii]
JsonList == [kind |-> "list", nodes |-> <<>>, pairs |-> <<>>, ascii |-> FALSE]

JStr(t) == [t |-> "str", s |-> t, b |-> FALSE]
JBool(b) == [t |-> "bool", s |-> <<>>, b |-> b]

IsAscii(c) == Len(c) = 1
JsonChars(t, ascii) ==
  Concat([i \in 1..Len(t) |-> IF ascii /\ ~IsAscii(t[i]) THEN Chars("\\" \o t[i]) ELSE <<t[i]>>])

JsonValue(v, ascii) ==
  IF v.t = "str" THEN Chars("\"") \o JsonChars(v.s, ascii) \o Chars("\"")
  ELSE IF v.b THEN Chars("true") ELSE Chars("false")

JsonPair(p, ascii) == Chars("\"" \o p.key \o "\": ") \o JsonValue(p.val, ascii)

\* resp.text: the body as characters
BodyText(body) ==
  CASE body.kind = "html" -> Render(body.nodes)
    [] body.kind = "list" -> Chars("[]")
    [] body.kind = "dict" ->
         Chars("{")
         \o Concat([i \in 1..Len(body.pairs) |->
                      (IF i > 1 THEN Chars(", ") ELSE <<>>) \o JsonPair(body.pairs[i], body.ascii)])
         \o Chars("}")

\* --------------------------------------------------------------- state
VARIABLES
  HAVE_BS4,    \* the structured parser was importable (lines 14-18)
  ACCOUNTS,    \* the ACCOUNTS environment variable: [kind, list]
  pc,          \* where main (and the flow it called) stands
  idx,         \* 1-based position of the loop of line 425
  results,     \* main's results list: the (status, label) of each tuple
  appended,    \* the tuple (status, label, detail) results.append added in the last
               \* step of main, NoTuple when that step appended nothing
  status,      \* main's local variable status
  session,     \* main's local variable session: [id, owner, jar], id 0 before the first
  nsessions,   \* how many requests.Session() objects were created
  http,        \* the http_request call in progress: [st, method, url, data, err]
  attempts,    \* history: what each session.request of that call ended in
  resp,        \* what the last http_request call returned
  action,      \* perform_checkin's action descriptor
  probe,       \* position in perform_checkin's candidates list, 0 outside the loop
  rc,          \* the exit code main returned, -1 before it returns
  trace,       \* history: the requests of the flow in progress (or last ended)
  loginRet,    \* history: what login_whmcs returned in this iteration
  from,        \* history: where the flow stood when the last iteration ended
  seen,        \* history: what each response login_whmcs judged in this iteration showed
  tick         \* history: a mark of the state that every step changes (see Mark)

vars == <<HAVE_BS4, ACCOUNTS, pc, idx, results, appended, status, session, nsessions, http,
          attempts, resp, action, probe, rc, trace, loginRet, from, seen, tick>>

\* history only: the mark of the state a step leads to, p, h and a being pc,
\* http and attempts there.  A call in progress is marked with the number of
\* its attempts so far, a call that has returned or raised with 3, an entry
\* of the loop of main with 4 and 5 in turn; no step leads to a state with
\* the mark of the state it leaves.
Mark(p, h, a) ==
  IF p = "loop" THEN (IF tick = 4 THEN 5 ELSE 4)
  ELSE IF p \in {"done", "crashed"} THEN 1
  ELSE IF p = "summary" THEN 0
  ELSE IF p = "checkin_found" THEN 2
  ELSE IF h.st = "run" THEN Len(a)
  ELSE 3

\* ----------------------------------------------------------------- URLs
DEFAULT_BASE_URL == "https://panel.freecloud.ltd"

HasPrefix(s, pre) == Len(s) >= Len(pre) /\ SubSeq(s, 1, Len(pre)) = pre

\* urllib.parse.urljoin for a base that is an origin without a path (what
\* line 429 leaves of DEFAULT_BASE_URL) and a reference that is a URL, an
\* absolute path or a relative path
urljoin(base, ref) ==
  IF ref = "" THEN base
  ELSE IF HasPrefix(ref, "http://") \/ HasPrefix(ref, "https://") THEN ref
  ELSE IF HasPrefix(ref, "/") THEN base \o ref
  ELSE base \o "/" \o ref

\* ------------------------------------------------------- token extractor
token_regex_pre ==
  L("name") \o Star(WS) \o L("=") \o Star(WS) \o One({"\"", "'"}) \o L("token")
  \o One({"\"", "'"}) \o Plus(WS) \o L("value") \o Star(WS) \o L("=") \o Star(WS)
  \o One({"\"", "'"})

\* soup.find("input", attrs={"name": "token"}): the inputs named token
TokenInputs(nodes) == SelectSeq(AllInputs(nodes), LAMBDA inp : inp.name = "token")

\* the token as a string, "" for None
_extract_csrf_token_from_html(body) ==
  LET html == BodyText(body)
      found == TokenInputs(body.nodes)
  IN  IF html = <<>> THEN ""
      ELSE IF HAVE_BS4 /\ found # <<>> /\ found[1].value # "" THEN found[1].value
      ELSE Str(re_group(token_regex_pre, NotPlus({"\"", "'"}), One({"\"", "'"}), html, TRUE))

\* ------------------------------------------------- login_whmcs, its steps
login_path == "/index.php?rp=/login"
clientarea_path == "/clientarea.php"

failure_patterns ==
  { L("Login Details Incorrect"),
    L("Invalid") \o Plus(WS) \o L("Login"),
    Lit(zh_denglushibai),
    Lit(zh_youxianghuomimacuowu),
    L("Email Address or Password"),
    L("sign in was incorrect") }

logged_in_indicators ==
  { L("Logout"), Lit(zh_tuichu), L("Client Area"), Lit(zh_kehuzhongxin),
    Lit(zh_wodeziliao), Lit(zh_fuwu) }

HasInput(form, name) == \E i \in 1..Len(form.inputs) : form.inputs[i].name = name

\* lines 176-183: the forms the loop would stop at
IsLoginForm(f) ==
  \/ f.href # "" /\ re_search(L("/login"), Chars(f.href), TRUE)
  \/ HasInput(f, "username") /\ HasInput(f, "password")

\* lines 170-187: where the credentials are posted
post_target(base_url, body) ==
  LET forms == SelectSeq(body.nodes, LAMBDA n : n.tag = "form")
      hits == SelectSeq(forms, IsLoginForm)
  IN  IF HAVE_BS4 /\ hits # <<>> /\ hits[1].href # ""
      THEN urljoin(base_url, hits[1].href)
      ELSE urljoin(base_url, login_path)

\* lines 160-167: the form data of the POST
login_payload(body, email, password) ==
  LET token == _extract_csrf_token_from_html(body)
  IN  [n \in {"username", "password", "rememberme"} \cup (IF token # "" THEN {"token"} ELSE {}) |->
         CASE n = "username" -> email
           [] n = "password" -> password
           [] n = "rememberme" -> "on"
           [] n = "token" -> token]

\* ------------------------------------------------------ action discovery
\* An action descriptor: [method, url, data]; data maps field names to values.
\* NoAction is None.
NoAction == [method |-> "", url |-> "", data |-> <<>>]

UpperStr(m) ==
  Str([i \in 1..Len(m) |->
         IF SubSeq(m, i, i) \in DOMAIN UpperMap THEN UpperMap[SubSeq(m, i, i)]
         ELSE SubSeq(m, i, i)])

LowerStr(m) == Str([i \in 1..Len(m) |-> Lower(SubSeq(m, i, i))])

\* lines 260-266: the dict of a form's named inputs, a later input overwriting
\* an earlier one of the same name
FormPayload(inputs) ==
  LET named == SelectSeq(inputs, LAMBDA inp : inp.name # "")
  IN  [n \in {named[i].name : i \in 1..Len(named)} |->
         named[Max({i \in 1..Len(named) : named[i].name = n})].value]

\* lines 246-251
LinkCandidates(base_url, nodes) ==
  LET hits == SelectSeq(nodes, LAMBDA n :
                  /\ n.tag \in {"a", "button"}
                  /\ re_search(Lit(zh_qiandao), Strip(n.text), FALSE)
                  /\ n.href # "")
  IN  [i \in 1..Len(hits) |->
         [method |-> "GET", url |-> urljoin(base_url, hits[i].href), data |-> <<>>]]

\* lines 253-267
FormCandidates(base_url, nodes) ==
  LET hits == SelectSeq(nodes, LAMBDA n :
                  /\ n.tag = "form"
                  /\ re_search(Lit(zh_qiandao), Strip(n.text), FALSE)
                  /\ n.href # "")
  IN  [i \in 1..Len(hits) |->
         [method |-> UpperStr(IF hits[i].method = "" THEN "POST" ELSE hits[i].method),
          url |-> urljoin(base_url, hits[i].href),
          data |-> FormPayload(hits[i].inputs)]]

anchor_regex_pre == L("<a") \o NotPlus({">"}) \o L("href=\"")
anchor_regex_post ==
  L("\"") \o NotStar({">"}) \o L(">") \o NotStar({"<"}) \o Lit(zh_qiandao)
  \o NotStar({"<"}) \o L("</a>")

form_regex_pre == L("<form") \o NotPlus({">"}) \o L("action=\"")
form_regex_post ==
  L("\"") \o NotStar({">"}) \o L(">") \o AnyUntil(Chars("</form>")) \o Lit(zh_qiandao)
  \o AnyUntil(Chars("</form>")) \o L("</form>")

\* _find_checkin_action_in_html with the loop of lines 253-267 in front of that of
\* lines 246-251
_find_checkin_action_forms_first(base_url, body) ==
  LET html == BodyText(body)
      candidates == FormCandidates(base_url, body.nodes) \o LinkCandidates(base_url, body.nodes)
      m == re_group(anchor_regex_pre, NotPlus({"\""}), anchor_regex_post, html, TRUE)
      m2 == re_group(form_regex_pre, NotPlus({"\""}), form_regex_post, html, TRUE)
      token == _extract_csrf_token_from_html(body)
  IN  IF html = <<>> THEN NoAction
      ELSE IF HAVE_BS4 /\ candidates # <<>> THEN candidates[1]
      ELSE IF m # <<>> THEN [method |-> "GET", url |-> urljoin(base_url, Str(m)), data |-> <<>>]
      ELSE IF m2 # <<>>
        THEN [method |-> "POST", url |-> urljoin(base_url, Str(m2)),
              data |-> IF token # "" THEN [n \in {"token"} |-> token] ELSE <<>>]
      ELSE NoAction

\* lines 236-293
_find_checkin_action_in_html(base_url, body) ==
  LET html == BodyText(body)
      candidates == LinkCandidates(base_url, body.nodes) \o FormCandidates(base_url, body.nodes)
      m == re_group(anchor_regex_pre, NotPlus({"\""}), anchor_regex_post, html, TRUE)
      m2 == re_group(form_regex_pre, NotPlus({"\""}), form_regex_post, html, TRUE)
      token == _extract_csrf_token_from_html(body)
  IN  IF html = <<>> THEN NoAction
      ELSE IF HAVE_BS4 /\ candidates # <<>> THEN candidates[1]
      ELSE IF m # <<>> THEN [method |-> "GET", url |-> urljoin(base_url, Str(m)), data |-> <<>>]
      ELSE IF m2 # <<>>
        THEN [method |-> "POST", url |-> urljoin(base_url, Str(m2)),
              data |-> IF token # "" THEN [n \in {"token"} |-> token] ELSE <<>>]
      ELSE NoAction

\* lines 311-318
probe_candidates ==
  << "/clientarea.php?action=qiandao",
     "/clientarea.php?action=checkin",
     "/index.php?m=checkin",
     "/index.php?m=signin",
     "/index.php?rp=/checkin",
     "/index.php?rp=/signin" >>

\* line 323
probe_patterns ==
  { Lit(zh_qiandao), Lit(zh_yiqiandao), Lit(zh_chenggong), Lit(zh_jifen),
    L("check") \o Opt({"-"}) \o L("in") }

\* probe_accepts without the status test of line 323
probe_accepts_any_status(r) == re_search_any(probe_patterns, BodyText(r.body), TRUE)

\* line 323
probe_accepts(r) == r.status = 200 /\ re_search_any(probe_patterns, BodyText(r.body), TRUE)

\* lines 339-345: the form data of the POST
action_data(act, dashboard) ==
  LET token == _extract_csrf_token_from_html(dashboard)
  IN  IF "token" \notin DOMAIN act.data /\ token # ""
      THEN [n \in (DOMAIN act.data) \cup {"token"} |->
              IF n = "token" THEN token ELSE act.data[n]]
      ELSE act.data

\* ------------------------------------------------ check-in classification
json_already == { Lit(zh_yiqiandao), L("already"), Lit(zh_chongfu) }
json_success == { Lit(zh_chenggong), L("success"), L("ok") }
html_already == { Lit(zh_jinriyiqiandao), Lit(zh_yiqiandao), L("already") }
html_success == { Lit(zh_qiandaochenggong), Lit(zh_chenggong), L("success") }

HasKey(pairs, k) == \E i \in 1..Len(pairs) : pairs[i].key = k
\* j[k], a repeated key keeping its last value
ValueOf(pairs, k) == pairs[Max({i \in 1..Len(pairs) : pairs[i].key = k})].val
Truthy(v) == IF v.t = "str" THEN v.s # <<>> ELSE v.b
\* j.get(k) is truthy
GetTruthy(pairs, k) == HasKey(pairs, k) /\ Truthy(ValueOf(pairs, k))

\* line 365: j.get("message") or j.get("msg") or j.get("status") or ""
json_msg(pairs) ==
  IF GetTruthy(pairs, "message") THEN ValueOf(pairs, "message")
  ELSE IF GetTruthy(pairs, "msg") THEN ValueOf(pairs, "msg")
  ELSE IF GetTruthy(pairs, "status") THEN ValueOf(pairs, "status")
  ELSE JStr(<<>>)

Outcome(st, detail) == [status |-> st, detail |-> detail]
Undecided == Outcome("", "")

\* lines 360-376: the result of the JSON case, Undecided when it falls through
\* (no JSON content type, json() or j.get raising, nothing matching)
classify_json(r) ==
  LET pairs == r.body.pairs
      msg == json_msg(pairs)
      maybe_json == HasPrefix(LowerStr(r.ctype), "application/json")
  IN  IF ~maybe_json \/ r.body.kind # "dict" THEN Undecided
      ELSE IF msg.t = "str" /\ re_search_any(json_already, msg.s, TRUE)
        THEN Outcome(ALREADY, Str(msg.s))
      ELSE IF msg.t = "str" /\ re_search_any(json_success, msg.s, TRUE)
        THEN Outcome(SUCCESS, Str(msg.s))
      ELSE IF \E k \in {"success", "ok", "result"} : GetTruthy(pairs, k)
        THEN Outcome(SUCCESS, IF msg.t = "str" /\ msg.s # <<>> THEN Str(msg.s)
                              ELSE IF msg.t = "bool" /\ msg.b THEN "True" ELSE "OK")
      ELSE Undecided

\* classify_html with lines 383-384 left out: the challenge detector is not asked
classify_html_no_challenge(r) ==
  LET text == BodyText(r.body)
  IN  IF re_search_any(html_already, text, TRUE) THEN Outcome(ALREADY, "Already checked in today")
      ELSE IF re_search_any(html_success, text, TRUE) THEN Outcome(SUCCESS, "Check-in success")
      ELSE Outcome(FAILED, "Unable to determine check-in result")

\* classify_html with the success phrases tried before the already phrases
classify_html_success_first(r) ==
  LET text == BodyText(r.body)
  IN  IF re_search_any(html_success, text, TRUE) THEN Outcome(SUCCESS, "Check-in success")
      ELSE IF re_search_any(html_already, text, TRUE) THEN Outcome(ALREADY, "Already checked in today")
      ELSE IF is_2fa_or_human_challenge(text, Chars(r.url))
        THEN Outcome(TWO_FA, "2FA or human verification encountered during check-in")
      ELSE Outcome(FAILED, "Unable to determine check-in result")

\* lines 378-386
classify_html(r) ==
  LET text == BodyText(r.body)
  IN  IF re_search_any(html_already, text, TRUE) THEN Outcome(ALREADY, "Already checked in today")
      ELSE IF re_search_any(html_success, text, TRUE) THEN Outcome(SUCCESS, "Check-in success")
      ELSE IF is_2fa_or_human_challenge(text, Chars(r.url))
        THEN Outcome(TWO_FA, "2FA or human verification encountered during check-in")
      ELSE Outcome(FAILED, "Unable to determine check-in result")

\* lines 357-386
classify_checkin(r) ==
  IF classify_json(r) # Undecided THEN classify_json(r) ELSE classify_html(r)

\* ------------------------------------------------------- the transport
\* A response: [status, url, ctype, body], url being the final URL.
Response(st, url, ctype, body) == [status |-> st, url |-> url, ctype |-> ctype, body |-> body]
NoResp == Response(0, "", "", HtmlBody(<<>>))

\* What one session.request call may end in: a response or a network error.
Received(r) == [err |-> FALSE, resp |-> r]
NetworkError == [err |-> TRUE, resp |-> NoResp]

retries == 3

NoCall == [st |-> "idle", method |-> "", url |-> "", data |-> <<>>, err |-> ""]
Call(method, url, data) == [st |-> "run", method |-> method, url |-> url, data |-> data, err |-> ""]

\* http_request without line 101: a status >= 500 is returned like any other
http_request_returns_5xx(h, attempt, o) ==
  IF ~o.err THEN [h EXCEPT !.st = "ret"]
  ELSE IF attempt < retries - 1 THEN h
  ELSE [h EXCEPT !.st = "exc", !.err = "Connection error"]

\* http_request with the last pass not recognised (attempt < retries for
\* attempt < retries - 1 at line 105): a fourth pass is made
http_request_one_more_pass(h, attempt, o) ==
  IF ~o.err /\ o.resp.status < 500 THEN [h EXCEPT !.st = "ret"]
  ELSE IF attempt < retries THEN h
  ELSE [h EXCEPT !.st = "exc",
                 !.err = IF o.err THEN "Connection error" ELSE "Server error: 500"]

\* lines 96-110: one pass of the loop, attempt being range(retries)'s value and
\* o what session.request ended in; st "run" goes on to the next pass
http_request(h, attempt, o) ==
  IF ~o.err /\ o.resp.status < 500 THEN [h EXCEPT !.st = "ret"]
  ELSE IF attempt < retries - 1 THEN h
  ELSE [h EXCEPT !.st = "exc",
                 !.err = IF o.err THEN "Connection error" ELSE "Server error: 500"]

\* ------------------------------------------------------------- inputs
\* An entry of the ACCOUNTS array: an account record, or something that is
\* no JSON object (record FALSE).
Account(email, password) == [record |-> TRUE, email |-> email, password |-> password]
NonRecord == [record |-> FALSE, email |-> "", password |-> ""]

Entries == { Account("a@b.c", "pw"), Account(" ", "pw"), Account("a@b.c", ""), NonRecord }

AccountLists == UNION { [1..n -> Entries] : n \in 0..MaxAccounts }

\* ACCOUNTS: unset or empty, not JSON, JSON that is no array, or an array
ConfigInputs ==
  { [kind |-> k, list |-> <<>>] : k \in {"unset", "badjson", "object"} }
  \cup { [kind |-> "array", list |-> l] : l \in AccountLists }

two_factor_path == "/index.php?rp=/login/two-factor"

Html(st, url, nodes) == Response(st, url, "text/html; charset=utf-8", HtmlBody(nodes))

TokenInput == [name |-> "token", value |-> "T1"]
UserInputs == <<[name |-> "username", value |-> ""], [name |-> "password", value |-> ""]>>

\* what the server may answer to GET login page
LoginPageResponses(base_url) ==
  { Html(200, urljoin(base_url, login_path),
         <<Form("/index.php?rp=/login", "post", <<TokenInput>> \o UserInputs, Chars("Login"))>>),
    Html(200, urljoin(base_url, login_path), <<Form("dologin.php", "post", UserInputs, <<>>)>>),
    Html(200, urljoin(base_url, login_path), <<>>),
    Html(403, urljoin(base_url, login_path), <<TextNode(Chars("Attention Required! Cloudflare"))>>),
    Html(200, urljoin(base_url, two_factor_path), <<>>) }

\* what the server may answer to the POST of the credentials
PostResponses(base_url) ==
  { Html(200, urljoin(base_url, clientarea_path), <<TextNode(Chars("Welcome back"))>>),
    Html(200, urljoin(base_url, login_path), <<TextNode(Chars("Login Details Incorrect"))>>),
    Html(200, urljoin(base_url, login_path), <<TextNode(zh_denglushibai \o zh_yanzhengma)>>),
    Html(200, urljoin(base_url, two_factor_path), <<TextNode(Chars("Enter your code"))>>),
    Html(200, urljoin(base_url, two_factor_path), <<>>) }

\* what the server may answer to GET dashboard
DashboardResponses(base_url) ==
  { Html(200, urljoin(base_url, clientarea_path), <<Link("/logout.php", Chars("Logout"))>>),
    Html(200, urljoin(base_url, clientarea_path),
         <<Link("/logout.php", zh_tuichu), Link("/qd.php", zh_qiandao)>>),
    Html(200, urljoin(base_url, clientarea_path),
         <<Form("/checkin.php", "post", <<TokenInput>>, zh_qiandao), Link("/qd.php", zh_qiandao),
           TextNode(zh_kehuzhongxin)>>),
    Html(200, urljoin(base_url, clientarea_path),
         <<Form("/checkin.php", "get", <<>>, zh_qiandao), Input("token", "T1"),
           TextNode(Chars("Client Area"))>>),
    Html(200, urljoin(base_url, two_factor_path), <<TextNode(zh_liangbuyanzheng)>>),
    Html(200, urljoin(base_url, clientarea_path), <<>>) }

\* what the server may answer to a probe of a conventional endpoint
ProbeResponses(url) ==
  { Html(200, url, <<TextNode(zh_jifen)>>),
    Html(200, url, <<TextNode(Chars("Page not found"))>>),
    Html(404, url, <<TextNode(zh_qiandao)>>) }

Json(url, pairs, ascii) == Response(200, url, "application/json", JsonDict(pairs, ascii))
Pair(k, v) == [key |-> k, val |-> v]

\* what the server may answer to the check-in action
ActionResponses(url) ==
  { Html(200, url, <<TextNode(zh_qiandaochenggong)>>),
    Html(200, url, <<TextNode(zh_jinriyiqiandao \o Chars(" ") \o zh_qiandaochenggong)>>),
    Html(200, url, <<TextNode(zh_yanzhengma)>>),
    Html(200, url, <<TextNode(Chars("Oops"))>>),
    Html(200, url, <<>>),
    Json(url, <<Pair("message", JStr(zh_qiandaochenggong))>>, TRUE),
    Json(url, <<Pair("msg", JStr(zh_yiqiandao \o zh_qiandaochenggong))>>, FALSE),
    Json(url, <<Pair("message", JStr(zh_qiandaochenggong)), Pair("last", JStr(zh_yiqiandao))>>, FALSE),
    Json(url, <<Pair("success", JBool(TRUE)), Pair("data", JStr(zh_yiqiandao \o zh_qiandaochenggong))>>, FALSE),
    Json(url, <<Pair("success", JBool(FALSE)), Pair("message", JStr(Chars("Invalid request")))>>, FALSE),
    Response(200, url, "application/json", JsonList),
    Response(200, url, "application/json", HtmlBody(<<TextNode(zh_yiqiandao \o zh_qiandaochenggong)>>)),
    Response(200, url, "text/html", JsonDict(<<Pair("message", JStr(zh_qiandaochenggong))>>, FALSE)) }

\* ------------------------------------------------------------------ main
NoTuple == [status |-> "", label |-> 0, detail |-> ""]

Init ==
  /\ HAVE_BS4 \in BOOLEAN
  /\ ACCOUNTS \in ConfigInputs
  /\ pc = "start"
  /\ idx = 0
  /\ results = <<>>
  /\ appended = NoTuple
  /\ status = ""
  /\ session = [id |-> 0, owner |-> 0, jar |-> {}]
  /\ nsessions = 0
  /\ http = NoCall
  /\ attempts = <<>>
  /\ resp = NoResp
  /\ action = NoAction
  /\ probe = 0
  /\ rc = -1
  /\ trace = <<>>
  /\ loginRet = ""
  /\ from = ""
  /\ seen = <<>>
  /\ tick = 0

StripStr(v) == Str(Strip(Chars(v)))

account == ACCOUNTS.list[idx]
email == StripStr(account.email)
password == StripStr(account.password)
\* line 429; no account of the model overrides the default
base_url == DEFAULT_BASE_URL

\* lines 403-414: "run" when the loop is entered, else the exit code
main_config(env) ==
  IF env.kind = "unset" THEN "0"
  ELSE IF env.kind \in {"badjson", "object"} THEN "1"
  ELSE "run"

\* lines 403-423
MainStart ==
  /\ pc = "start"
  /\ IF main_config(ACCOUNTS) = "run"
     THEN /\ pc' = "loop"
          /\ idx' = 1
          /\ rc' = rc
     ELSE /\ pc' = "done"
          /\ idx' = idx
          /\ rc' = IF main_config(ACCOUNTS) = "0" THEN 0 ELSE 1
  /\ results' = <<>>
  /\ UNCHANGED <<HAVE_BS4, seen, ACCOUNTS, appended, status, session, nsessions, http, attempts,
                 resp, action, probe, trace, loginRet, from>>
  /\ tick' = Mark(pc', http', attempts')

\* history only: the response in hand ends login_whmcs (a challenge, or a
\* failure phrase after the POST)
Conclusive ==
  /\ http.st = "ret"
  /\ \/ /\ pc \in {"login_get", "login_post"}
        /\ is_2fa_or_human_challenge(BodyText(resp.body), Chars(resp.url))
     \/ /\ pc = "login_post"
        /\ re_search_any(failure_patterns, BodyText(resp.body), TRUE)

\* http_request is called: the flow waits at newpc for what it returns or
\* raises; tr is what the flow requested before
StartCall(newpc, tr, flow, method, url, data) ==
  /\ pc' = newpc
  /\ http' = Call(method, url, data)
  /\ attempts' = <<>>
  /\ resp' = NoResp
  /\ trace' = Append(tr, [flow |-> flow, method |-> method, url |-> url,
                          decided |-> Conclusive])

\* record_result with line 455 left out: a challenged account is not recorded
record_result_skips_2fa(res, st, label) ==
  IF st = TWO_FA THEN res ELSE Append(res, [status |-> st, label |-> label])

\* lines 434, 450, 455, 459, 469, 480
record_result(res, st, label) == Append(res, [status |-> st, label |-> label])

\* results.append((status, label, detail)) and on to the next account; the
\* label is that of the account at idx.  What the flow last called and got
\* stays in view until the next iteration starts.
EndIteration(st, detail) ==
  /\ results' = record_result(results, st, idx)
  /\ appended' = [status |-> st, label |-> idx, detail |-> detail]
  /\ idx' = idx + 1
  /\ pc' = "loop"
  /\ from' = pc
  /\ UNCHANGED <<http, attempts, resp, action, probe>>

\* new_session with line 440 moved in front of the loop: one session for the run
new_session_shared(old, n, i) ==
  IF old.id = 0 THEN [id |-> n + 1, owner |-> i, jar |-> {}] ELSE old

\* lines 440-441: session = requests.Session(), old being what the name held before
new_session(old, n, i) == [id |-> n + 1, owner |-> i, jar |-> {}]

\* line 432 with the password forgotten: only the email is looked at
missing_credentials_email_only(e, p) == e = ""

\* line 432
missing_credentials(e, p) == e = "" \/ p = ""

\* lines 425-445, and 485 when the list is exhausted
MainLoop ==
  /\ pc = "loop"
  /\ IF idx > Len(ACCOUNTS.list)
     THEN /\ pc' = "summary"
          /\ appended' = NoTuple
          /\ http' = NoCall
          /\ trace' = <<>>
          /\ loginRet' = ""
          /\ from' = ""
          /\ UNCHANGED <<idx, results, session, nsessions, rc>>
     ELSE IF ~account.record
     THEN \* safe_label: account.get raises AttributeError, which nothing catches
          /\ pc' = "crashed"
          /\ rc' = 1
          /\ appended' = NoTuple
          /\ http' = NoCall
          /\ trace' = <<>>
          /\ loginRet' = ""
          /\ from' = ""
          /\ UNCHANGED <<idx, results, session, nsessions>>
     ELSE IF missing_credentials(email, password)
     THEN /\ results' = record_result(results, FAILED, idx)
          /\ appended' = [status |-> FAILED, label |-> idx, detail |-> "Missing credentials"]
          /\ idx' = idx + 1
          /\ pc' = "loop"
          /\ http' = NoCall
          /\ trace' = <<>>
          /\ loginRet' = ""
          /\ from' = "credentials"
          /\ UNCHANGED <<session, nsessions, rc>>
     ELSE /\ session' = new_session(session, nsessions, idx)
          /\ nsessions' = nsessions + 1
          /\ pc' = "login_get"
          /\ http' = Call("GET", urljoin(base_url, login_path), <<>>)
          /\ trace' = <<[flow |-> "login", method |-> "GET",
                         url |-> urljoin(base_url, login_path), decided |-> FALSE]>>
          /\ loginRet' = ""
          /\ appended' = NoTuple
          /\ from' = ""
          /\ UNCHANGED <<idx, results, rc>>
  /\ attempts' = <<>>
  /\ resp' = NoResp
  /\ action' = NoAction
  /\ probe' = 0
  /\ seen' = <<>>
  /\ UNCHANGED <<HAVE_BS4, ACCOUNTS, status>>
  /\ tick' = Mark(pc', http', attempts')

\* ---------------------------------------------------- http_request, a pass
Answers ==
  CASE pc = "login_get" -> LoginPageResponses(base_url)
    [] pc = "login_post" -> PostResponses(base_url)
    [] pc \in {"login_ca", "checkin_ca"} -> DashboardResponses(base_url)
    [] pc = "checkin_probe" -> ProbeResponses(http.url)
    [] pc = "checkin_act" -> ActionResponses(http.url)
    [] OTHER -> {}

ServerOutcomes ==
  {NetworkError, Received(Html(500, http.url, <<>>))} \cup {Received(r) : r \in Answers}

\* history only: whether an attempt failed (a network error or a status >= 500)
OutcomeClass(o) == IF o.err \/ o.resp.status >= 500 THEN "failed" ELSE "ok"

\* lines 96-110: session.request on the session, which sends the cookies of
\* its jar; the server sets its session cookie with every response
HttpAttempt ==
  /\ http.st = "run"
  /\ \E o \in ServerOutcomes :
       /\ http' = http_request(http, Len(attempts), o)
       /\ attempts' = Append(attempts, OutcomeClass(o))
       /\ resp' = IF http'.st = "ret" THEN o.resp ELSE NoResp
       /\ session' = [session EXCEPT !.jar = IF o.err THEN @ ELSE @ \cup {idx}]
  /\ UNCHANGED <<HAVE_BS4, seen, ACCOUNTS, pc, idx, results, appended, status, nsessions, action,
                 probe, rc, trace, loginRet, from>>
  /\ tick' = Mark(pc', http', attempts')

\* ------------------------------------------------------------ the flows
\* login_branch with lines 453-456 left out: only FAILED ends the iteration
login_branch_only_failed(st) == IF st = FAILED THEN "failed" ELSE "checkin"

\* lines 453-460: what main does with the status login_whmcs returned
login_branch(st) ==
  IF st = TWO_FA THEN "2fa" ELSE IF st # SUCCESS THEN "failed" ELSE "checkin"

\* login_whmcs returns out: lines 445, 453-464 and, on SUCCESS, 296-306
LoginReturns(out) ==
  /\ status' = out.status
  /\ loginRet' = out.status
  /\ CASE login_branch(out.status) = "2fa" ->
            EndIteration(TWO_FA, out.detail) /\ trace' = trace
       [] login_branch(out.status) = "failed" ->
            EndIteration(FAILED, out.detail) /\ trace' = trace
       [] login_branch(out.status) = "checkin" ->
            /\ StartCall("checkin_ca", <<>>, "checkin", "GET",
                         urljoin(base_url, clientarea_path), <<>>)
            /\ UNCHANGED <<results, appended, idx, action, probe, from>>

\* history only: what the response in hand shows of the three things
\* login_whmcs looks for (lines 155, 199, 211, 217, 229)
LoginFacts ==
  LET text == BodyText(resp.body)
  IN  (IF is_2fa_or_human_challenge(text, Chars(resp.url)) THEN {"challenge"} ELSE {})
      \cup (IF pc = "login_post" /\ re_search_any(failure_patterns, text, TRUE)
            THEN {"failure"} ELSE {})
      \cup (IF pc = "login_ca" /\ re_search_any(logged_in_indicators, text, TRUE)
            THEN {"indicator"} ELSE {})

\* lines 153-156: the verdict on the login page
login_page_challenge(r) == is_2fa_or_human_challenge(BodyText(r.body), Chars(r.url))

\* lines 153-196
LoginPage ==
  /\ pc = "login_get"
  /\ http.st = "ret"
  /\ IF login_page_challenge(resp)
     THEN LoginReturns(Outcome(TWO_FA, "2FA or human verification detected on login page"))
     ELSE /\ StartCall("login_post", trace, "login", "POST", post_target(base_url, resp.body),
                       login_payload(resp.body, email, password))
          /\ UNCHANGED <<results, appended, idx, status, action, probe, loginRet, from>>
  /\ seen' = Append(seen, LoginFacts)
  /\ UNCHANGED <<HAVE_BS4, ACCOUNTS, session, nsessions, rc>>
  /\ tick' = Mark(pc', http', attempts')

\* login_post_verdict with lines 206-212 left out: a failure phrase is not looked for
login_post_verdict_no_failure(r) ==
  IF is_2fa_or_human_challenge(BodyText(r.body), Chars(r.url))
  THEN Outcome(TWO_FA, "2FA or human verification challenge detected after login")
  ELSE Undecided

\* lines 199-212: the verdict on the response to the POST, Undecided to go on
login_post_verdict(r) ==
  IF is_2fa_or_human_challenge(BodyText(r.body), Chars(r.url))
  THEN Outcome(TWO_FA, "2FA or human verification challenge detected after login")
  ELSE IF re_search_any(failure_patterns, BodyText(r.body), TRUE)
  THEN Outcome(FAILED, "Invalid credentials or login failed")
  ELSE Undecided

\* lines 199-216
LoginPosted ==
  /\ pc = "login_post"
  /\ http.st = "ret"
  /\ IF login_post_verdict(resp) # Undecided
     THEN LoginReturns(login_post_verdict(resp))
     ELSE /\ StartCall("login_ca", trace, "login", "GET",
                       urljoin(base_url, clientarea_path), <<>>)
          /\ UNCHANGED <<results, appended, idx, status, action, probe, loginRet, from>>
  /\ seen' = Append(seen, LoginFacts)
  /\ UNCHANGED <<HAVE_BS4, ACCOUNTS, session, nsessions, rc>>
  /\ tick' = Mark(pc', http', attempts')

\* login_confirm_verdict with lines 221-229 left out: no indicator is asked for
login_confirm_verdict_no_indicator(r) ==
  IF is_2fa_or_human_challenge(BodyText(r.body), Chars(r.url))
  THEN Outcome(TWO_FA, "2FA or human verification detected in client area")
  ELSE Outcome(SUCCESS, "Logged in")

\* lines 217-233: the verdict on the dashboard
login_confirm_verdict(r) ==
  IF is_2fa_or_human_challenge(BodyText(r.body), Chars(r.url))
  THEN Outcome(TWO_FA, "2FA or human verification detected in client area")
  ELSE IF re_search_any(logged_in_indicators, BodyText(r.body), TRUE)
  THEN Outcome(SUCCESS, "Logged in")
  ELSE Outcome(FAILED, "Unable to confirm login")

\* lines 217-233
LoginConfirmed ==
  /\ pc = "login_ca"
  /\ http.st = "ret"
  /\ LoginReturns(login_confirm_verdict(resp))
  /\ seen' = Append(seen, LoginFacts)
  /\ UNCHANGED <<HAVE_BS4, ACCOUNTS, session, nsessions, rc>>
  /\ tick' = Mark(pc', http', attempts')

\* lines 446-451: http_request raised inside login_whmcs
LoginRaises ==
  /\ pc \in {"login_get", "login_post", "login_ca"}
  /\ http.st = "exc"
  /\ EndIteration(FAILED, "Login error: " \o http.err)
  /\ loginRet' = "raised"
  /\ UNCHANGED <<HAVE_BS4, seen, ACCOUNTS, status, session, nsessions, rc, trace>>
  /\ tick' = Mark(pc', http', attempts')

\* perform_checkin returns out: lines 464, 472-483
CheckinReturns(out) ==
  /\ status' = out.status
  /\ EndIteration(out.status, out.detail)
  /\ trace' = trace

\* lines 332-355: the action is performed; dashboard is ca, which is not read
\* after this
Execute(act, dashboard) ==
  /\ IF UpperStr(act.method) = "POST"
     THEN StartCall("checkin_act", trace, "checkin", "POST", act.url,
                    action_data(act, dashboard.body))
     ELSE StartCall("checkin_act", trace, "checkin", "GET", act.url, <<>>)
  /\ action' = act
  /\ probe' = 0
  /\ UNCHANGED <<results, appended, idx, status, from>>

ProbeUrl(i) == urljoin(base_url, probe_candidates[i])

\* lines 306-355: with no action found the probes start; they lead to GET
\* actions only, so that ca is not read after this either
CheckinDashboard ==
  /\ pc = "checkin_ca"
  /\ http.st = "ret"
  /\ LET found == _find_checkin_action_in_html(base_url, resp.body)
     IN  IF found # NoAction
         THEN Execute(found, resp)
         ELSE /\ StartCall("checkin_probe", trace, "checkin", "GET", ProbeUrl(1), <<>>)
              /\ probe' = 1
              /\ UNCHANGED <<results, appended, idx, status, action, from>>
  /\ UNCHANGED <<HAVE_BS4, seen, ACCOUNTS, session, nsessions, rc, loginRet>>
  /\ tick' = Mark(pc', http', attempts')

\* lines 319-330: a probe returned or raised
CheckinProbe ==
  /\ pc = "checkin_probe"
  /\ http.st \in {"ret", "exc"}
  /\ IF http.st = "ret" /\ probe_accepts(resp)
     THEN Execute([method |-> "GET", url |-> ProbeUrl(probe), data |-> <<>>], NoResp)
     ELSE IF probe < Len(probe_candidates)
     THEN /\ StartCall("checkin_probe", trace, "checkin", "GET", ProbeUrl(probe + 1), <<>>)
          /\ probe' = probe + 1
          /\ UNCHANGED <<results, appended, idx, status, action, from>>
     ELSE CheckinReturns(Outcome(FAILED, "Check-in entry not found"))
  /\ UNCHANGED <<HAVE_BS4, seen, ACCOUNTS, session, nsessions, rc, loginRet>>
  /\ tick' = Mark(pc', http', attempts')

\* lines 357-386
CheckinResult ==
  /\ pc = "checkin_act"
  /\ http.st = "ret"
  /\ CheckinReturns(classify_checkin(resp))
  /\ UNCHANGED <<HAVE_BS4, seen, ACCOUNTS, session, nsessions, rc, loginRet>>
  /\ tick' = Mark(pc', http', attempts')

\* CheckinRaises with the try of lines 463-470 left out: the exception leaves main
CheckinRaises_uncaught ==
  /\ pc \in {"checkin_ca", "checkin_act"}
  /\ http.st = "exc"
  /\ pc' = "crashed"
  /\ rc' = 1
  /\ from' = pc
  /\ UNCHANGED <<HAVE_BS4, seen, ACCOUNTS, idx, results, appended, status, session, nsessions, http,
                 attempts, resp, action, probe, trace, loginRet>>
  /\ tick' = Mark(pc', http', attempts')

\* lines 465-470: http_request raised inside perform_checkin, outside the probes
CheckinRaises ==
  /\ pc \in {"checkin_ca", "checkin_act"}
  /\ http.st = "exc"
  /\ EndIteration(FAILED, "Check-in error: " \o http.err)
  /\ UNCHANGED <<HAVE_BS4, seen, ACCOUNTS, status, session, nsessions, rc, trace, loginRet>>
  /\ tick' = Mark(pc', http', attempts')

\* ------------------------------------------------------------ the summary
Count(res, sts) == Cardinality({i \in 1..Len(res) : res[i].status \in sts})
\* lines 486-502
ok_count(res) == Count(res, {SUCCESS, ALREADY})
twofa_count(res) == Count(res, {TWO_FA})
fail_count(res) == Cardinality({i \in 1..Len(res) : res[i].status \notin {SUCCESS, ALREADY, TWO_FA}})
lines(res) ==
  [i \in 1..Len(res) |->
     [mark |-> CASE res[i].status = SUCCESS -> "ok"
                 [] res[i].status = ALREADY -> "already"
                 [] res[i].status = TWO_FA -> "2fa"
                 [] OTHER -> "fail",
      label |-> res[i].label]]

\* exit_code with the test total_accounts > 0 left out
exit_code_no_total(res) ==
  IF Count(res, {FAILED}) = Len(res) THEN 1 ELSE 0

\* lines 516-521
exit_code(res) ==
  LET total_accounts == Len(res)
      hard_failures == Count(res, {FAILED})
  IN  IF hard_failures = total_accounts /\ total_accounts > 0 THEN 1 ELSE 0

\* lines 485-521
Summary ==
  /\ pc = "summary"
  /\ rc' = exit_code(results)
  /\ pc' = "done"
  /\ UNCHANGED <<HAVE_BS4, seen, ACCOUNTS, idx, results, appended, status, session, nsessions, http,
                 attempts, resp, action, probe, trace, loginRet, from>>
  /\ tick' = Mark(pc', http', attempts')

Next ==
  \/ MainStart
  \/ MainLoop
  \/ HttpAttempt
  \/ LoginPage
  \/ LoginPosted
  \/ LoginConfirmed
  \/ LoginRaises
  \/ CheckinDashboard
  \/ CheckinProbe
  \/ CheckinResult
  \/ CheckinRaises
  \/ Summary

Spec == Init /\ [][Next]_vars

\* The run as the interpreter executes it: main is one sequential thread, each
\* statement is executed when control reaches it, and every session.request
\* returns or raises within its timeout (line 98, timeout=30) whatever the
\* server does, so a step that can be taken is taken.
\* The run takes another step as long as it has not ended.  Every step
\* changes tick and is taken where the run has not ended, so the steps of
\* Running that change tick are the steps of Next.
Running == pc \notin {"done", "crashed"} /\ tick' \in 0..5 /\ tick' # tick

FairSpec == Spec /\ WF_tick(Running)

\* ------------------------------------- perform_checkin on any dashboard
\* The steps of lines 308-355 taken one by one, from the moment the dashboard
\* ca has been fetched for the only account of a run, over dashboards of one
\* or two elements; resp stays what the last call returned, which is ca.
PlainInput(name, value) == [name |-> name, value |-> value]

DashboardNodes ==
  { Link("/qd.php", zh_qiandao),
    Link("", zh_qiandao),
    Link("/logout.php", Chars("Logout")),
    Form("/checkin.php", "post", <<TokenInput>>, zh_qiandao),
    Form("/checkin.php", "get", <<PlainInput("day", "1")>>, zh_qiandao),
    Form("/checkin.php", "", <<PlainInput("day", "1")>>, zh_qiandao),
    Form("/checkin.php", "post", <<PlainInput("token", "")>>, zh_qiandao),
    Form("/checkin.php", "dialog", <<>>, zh_qiandao),
    Form("/search.php", "post", <<StyledInput("token", "T2", "sq")>>, Chars("Search")),
    [Input("token", "T1") EXCEPT !.inputs = <<StyledInput("token", "T1", "vn")>>],
    Input("token", "T1"),
    TextNode(zh_kehuzhongxin) }

DashboardPages ==
  { <<n>> : n \in DashboardNodes } \cup { <<n, m>> : n \in DashboardNodes, m \in DashboardNodes }

DiscoveryInit ==
  /\ HAVE_BS4 \in BOOLEAN
  /\ ACCOUNTS = [kind |-> "array", list |-> <<Account("a@b.c", "pw")>>]
  /\ pc = "checkin_ca"
  /\ idx = 1
  /\ results = <<>>
  /\ appended = NoTuple
  /\ status = SUCCESS
  /\ session = [id |-> 1, owner |-> 1, jar |-> {1}]
  /\ nsessions = 1
  /\ http = [Call("GET", urljoin(DEFAULT_BASE_URL, clientarea_path), <<>>) EXCEPT !.st = "ret"]
  /\ attempts = <<"ok">>
  /\ resp \in { Html(200, urljoin(DEFAULT_BASE_URL, clientarea_path), p) : p \in DashboardPages }
  /\ action = NoAction
  /\ probe = 0
  /\ rc = -1
  /\ trace = <<[flow |-> "checkin", method |-> "GET",
                url |-> urljoin(DEFAULT_BASE_URL, clientarea_path), decided |-> FALSE]>>
  /\ loginRet = SUCCESS
  /\ from = ""
  /\ seen = <<{}, {}, {"indicator"}>>
  /\ tick = 3

\* line 308
Discover ==
  /\ pc = "checkin_ca"
  /\ http.st = "ret"
  /\ action' = _find_checkin_action_in_html(base_url, resp.body)
  /\ pc' = "checkin_found"
  /\ UNCHANGED <<HAVE_BS4, seen, ACCOUNTS, idx, results, appended, status, session, nsessions,
                 http, attempts, resp, probe, rc, trace, loginRet, from>>
  /\ tick' = Mark(pc', http', attempts')

\* lines 332-355, for an action found in the markup: the request is issued
Perform ==
  /\ pc = "checkin_found"
  /\ action # NoAction
  /\ pc' = "checkin_act"
  /\ http' = IF UpperStr(action.method) = "POST"
             THEN Call("POST", action.url, action_data(action, resp.body))
             ELSE Call("GET", action.url, <<>>)
  /\ attempts' = <<>>
  /\ trace' = Append(trace, [flow |-> "checkin", method |-> http'.method, url |-> action.url,
                              decided |-> FALSE])
  /\ UNCHANGED <<HAVE_BS4, seen, ACCOUNTS, idx, results, appended, status, session, nsessions,
                 action, resp, probe, rc, loginRet, from>>
  /\ tick' = Mark(pc', http', attempts')

DiscoveryNext == Discover \/ Perform

DiscoverySpec == DiscoveryInit /\ [][DiscoveryNext]_vars

\* ================================================================ properties
LoginPcs == {"login_get", "login_post", "login_ca"}
CheckinPcs == {"checkin_ca", "checkin_probe", "checkin_act"}
FlowPcs == LoginPcs \cup CheckinPcs

\* the request trace of the flow named f in the current iteration
FlowTrace(f) == SelectSeq(trace, LAMBDA e : e.flow = f)

\* the plain substring test
HasPhrase(t, w) == \E k \in 1..(Len(t) - Len(w) + 1) : SubSeq(t, k, k + Len(w) - 1) = w

\* C1: perform_checkin runs (main waits in it, or one of its requests is in
\* the trace of the iteration) only if login_whmcs returned SUCCESS in this
\* same iteration; after TWO_FA, FAILED or an exception of the login no
\* check-in request is in the trace.
C1_CheckinOnlyAfterLoginSuccess ==
  /\ (pc \in CheckinPcs \/ FlowTrace("checkin") # <<>>) => loginRet = SUCCESS
  /\ loginRet \in {TWO_FA, FAILED, "raised"} =>
       /\ pc = "loop"
       /\ FlowTrace("checkin") = <<>>
       /\ from \in LoginPcs

\* the first account was challenged at login and recorded without any
\* check-in; the second account logged in and is in perform_checkin
C1_Witness ==
  /\ idx = 2
  /\ Len(results) = 1
  /\ results[1].status = TWO_FA
  /\ pc = "checkin_act"
  /\ loginRet = SUCCESS

\* C2: once http_request has raised out of login_whmcs or perform_checkin
\* (the exception is no longer travelling inside the flow), main stands at the
\* head of the loop with the next entry to handle, and the account whose flow
\* raised is recorded as FAILED at its own position; the run is not ended.
C2_ExceptionBecomesFailed ==
  (http.st = "exc" /\ pc \notin FlowPcs) =>
     /\ pc = "loop"
     /\ from \in FlowPcs
     /\ idx <= Len(ACCOUNTS.list) + 1
     /\ Len(results) = idx - 1
     /\ results[idx - 1] = [status |-> FAILED, label |-> idx - 1]
     /\ appended.status = FAILED
     /\ appended.label = idx - 1

\* the check-in of the first of two accounts ended in a terminal transport
\* failure; main is about to handle the second account
C2_Witness ==
  /\ pc = "loop"
  /\ http.st = "exc"
  /\ from = "checkin_act"
  /\ attempts = <<"failed", "failed", "failed">>
  /\ idx = 2
  /\ Len(ACCOUNTS.list) = 2
  /\ ACCOUNTS.list[2] = Account("a@b.c", "pw")

\* C3: at the summary results has one outcome per entry of the account list,
\* the k-th for the k-th account, each status one of the four; the summary
\* has one line per account, in order, and the three counters add up to the
\* number of accounts.
C3_OneResultPerAccount ==
  pc = "summary" =>
     /\ Len(results) = Len(ACCOUNTS.list)
     /\ \A k \in 1..Len(results) :
          /\ results[k].label = k
          /\ results[k].status \in {SUCCESS, ALREADY, TWO_FA, FAILED}
     /\ Len(lines(results)) = Len(ACCOUNTS.list)
     /\ \A k \in 1..Len(results) : lines(results)[k].label = k
     /\ ok_count(results) + twofa_count(results) + fail_count(results) = Len(ACCOUNTS.list)

\* a list of two accounts, the first challenged, the second without
\* credentials
C3_Witness ==
  /\ pc = "summary"
  /\ Len(ACCOUNTS.list) = 2
  /\ results[1].status = TWO_FA
  /\ results[2].status = FAILED
  /\ twofa_count(results) = 1

\* C4: a run that went through its account list returns 1 exactly when there
\* is at least one result and every result is FAILED, and 0 otherwise.
C4_ExitCode ==
  (pc = "done" /\ ACCOUNTS.kind = "array") =>
     /\ rc \in {0, 1}
     /\ rc = 1 <=> (Len(results) > 0 /\ \A k \in 1..Len(results) : results[k].status = FAILED)
     /\ (\E k \in 1..Len(results) : results[k].status \in {SUCCESS, ALREADY, TWO_FA}) => rc = 0
     /\ results = <<>> => rc = 0

\* every account of the run was challenged and the run returned 0
C4_Witness ==
  /\ pc = "done"
  /\ Len(results) = 2
  /\ \A k \in 1..2 : results[k].status = TWO_FA
  /\ rc = 0

\* C5: of the attempts of one http_request call only the last can be other
\* than a failure (a network error or a status >= 500) and there are never
\* more than retries of them; the call goes on only after a failure and
\* while fewer than retries attempts were made; it returns exactly when an
\* attempt brought a status < 500, with that response; it raises exactly when
\* retries attempts have all failed.
C5_RetryDiscipline ==
  /\ Len(attempts) <= retries
  /\ \A i \in 1..(Len(attempts) - 1) : attempts[i] = "failed"
  /\ http.st = "idle" => attempts = <<>>
  /\ http.st = "run" =>
       /\ Len(attempts) < retries
       /\ \A i \in 1..Len(attempts) : attempts[i] = "failed"
  /\ http.st = "ret" =>
       /\ attempts # <<>>
       /\ attempts[Len(attempts)] = "ok"
       /\ resp # NoResp
       /\ resp.status < 500
  /\ http.st = "exc" =>
       /\ Len(attempts) = retries
       /\ \A i \in 1..Len(attempts) : attempts[i] = "failed"
       /\ resp = NoResp

\* two failures, then a 404 on the third attempt, which is returned
C5_Witness ==
  /\ http.st = "ret"
  /\ attempts = <<"failed", "failed", "ok">>
  /\ resp.status = 404

\* the body of r contains the already phrase and the success phrase
BothPhrases(r) ==
  /\ HasPhrase(BodyText(r.body), zh_yiqiandao)
  /\ HasPhrase(BodyText(r.body), zh_qiandaochenggong)

\* perform_checkin has returned on the response resp of the executed action
CheckinClassified == pc = "loop" /\ from = "checkin_act" /\ http.st = "ret"

\* C6 as stated: whatever the content type, a response to the executed action
\* whose body contains both phrases makes perform_checkin return ALREADY.
C6_AlreadyWinsWhateverType ==
  (CheckinClassified /\ BothPhrases(resp)) => appended.status = ALREADY

\* the JSON case of perform_checkin decides r as a success: r is JSON-typed,
\* its body is a JSON object whose message does not match an already pattern,
\* and the message matches a success pattern or a flag is truthy
JsonSaysSuccess(r) ==
  /\ HasPrefix(LowerStr(r.ctype), "application/json")
  /\ r.body.kind = "dict"
  /\ LET msg == json_msg(r.body.pairs)
     IN  /\ ~(msg.t = "str" /\ re_search_any(json_already, msg.s, TRUE))
         /\ \/ msg.t = "str" /\ re_search_any(json_success, msg.s, TRUE)
            \/ \E k \in {"success", "ok", "result"} : GetTruthy(r.body.pairs, k)

\* C6 amended: a response to the executed action whose body contains both
\* phrases makes perform_checkin return ALREADY, except that a JSON-typed
\* object is judged by its message and flags alone and returns SUCCESS when
\* these say success without the message matching an already pattern.
C6_AlreadyWinsUnlessJsonSuccess ==
  (CheckinClassified /\ BothPhrases(resp)) =>
     appended.status = IF JsonSaysSuccess(resp) THEN SUCCESS ELSE ALREADY

\* an HTML body announced as JSON holds both phrases; the JSON case fell
\* through and the result is ALREADY
C6_Witness ==
  /\ CheckinClassified
  /\ BothPhrases(resp)
  /\ resp.ctype = "application/json"
  /\ resp.body.kind = "html"
  /\ appended.status = ALREADY

\* C7 as stated, on every response login_whmcs is about to judge:
\* is_2fa_or_human_challenge is true exactly when the text matches a body
\* pattern or the url matches the two-factor pattern, the body being empty or
\* not.
C7_ChallengeIffEitherMatches ==
  (pc \in LoginPcs /\ http.st = "ret") =>
     (is_2fa_or_human_challenge(BodyText(resp.body), Chars(resp.url))
        <=> \/ re_search_any(challenge_patterns, BodyText(resp.body), TRUE)
            \/ re_search_any(challenge_url_patterns, Chars(resp.url), TRUE))

\* ACCOUNTS is malformed: no JSON, no array, or an array with an entry that
\* is no account record
Malformed(env) ==
  \/ env.kind \in {"badjson", "object"}
  \/ env.kind = "array" /\ \E k \in 1..Len(env.list) : ~env.list[k].record

\* C8 as stated: with a malformed ACCOUNTS no session is ever created and no
\* request is ever issued.
C8_MalformedConfigTouchesNothing ==
  Malformed(ACCOUNTS) =>
     /\ nsessions = 0
     /\ http.st = "idle"
     /\ trace = <<>>

\* C9: every request is made on the session created in the iteration of the
\* account it is made for, the newest session of the run, and the jar of that
\* session holds no cookie set while another account was processed.
C9_SessionPerAccount ==
  /\ http.st # "idle" =>
       /\ session.owner = idx - (IF pc = "loop" THEN 1 ELSE 0)
       /\ session.id = nsessions
  /\ session.jar \subseteq {session.owner}
  /\ nsessions <= idx

\* the second account sends a request carrying its own cookie, after the
\* first account's session got a cookie of its own
C9_Witness ==
  /\ idx = 2
  /\ http.st = "run"
  /\ pc = "login_post"
  /\ session = [id |-> 2, owner |-> 2, jar |-> {2}]
  /\ results[1].status \in {SUCCESS, ALREADY}

\* the three requests of login_whmcs for the account at hand; the target of
\* the POST is whatever the login page named
LoginShape(lt) ==
  /\ Len(lt) <= 3
  /\ Len(lt) >= 1 =>
       lt[1].method = "GET" /\ lt[1].url = urljoin(DEFAULT_BASE_URL, login_path)
  /\ Len(lt) >= 2 => lt[2].method = "POST"
  /\ Len(lt) >= 3 =>
       lt[3].method = "GET" /\ lt[3].url = urljoin(DEFAULT_BASE_URL, clientarea_path)

LoginVerdict(s) ==
  IF \E i \in 1..Len(s) : "challenge" \in s[i] THEN TWO_FA
  ELSE IF Len(s) = 3 /\ "failure" \notin s[2] /\ "indicator" \in s[3] THEN SUCCESS
  ELSE FAILED

JsonTyped(r) == HasPrefix(LowerStr(r.ctype), "application/json")

\* t holds an already phrase, a success phrase (letters in either case)
AlreadyPhrase(t) == HasPhrase(t, zh_yiqiandao) \/ HasPhrase(LowerSeq(t), Chars("already"))
SuccessPhrase(t) == HasPhrase(t, zh_chenggong) \/ HasPhrase(LowerSeq(t), Chars("success"))

\* C12: for a response to the check-in action that is not JSON-typed,
\* perform_checkin returns ALREADY if the body holds an already phrase; else
\* SUCCESS if it holds a success phrase; else TWO_FA if the challenge detector
\* fires; else FAILED with "Unable to determine check-in result".
C12_HtmlPriority ==
  (CheckinClassified /\ ~JsonTyped(resp)) =>
     LET t == BodyText(resp.body)
     IN  /\ appended.status \in {ALREADY, SUCCESS, TWO_FA, FAILED}
         /\ appended.status =
              IF AlreadyPhrase(t) THEN ALREADY
              ELSE IF SuccessPhrase(t) THEN SUCCESS
              ELSE IF is_2fa_or_human_challenge(t, Chars(resp.url)) THEN TWO_FA
              ELSE FAILED
         /\ appended.status = FAILED => appended.detail = "Unable to determine check-in result"

\* an HTML page with a challenge phrase and neither an already nor a success
\* phrase was classified TWO_FA
C12_Witness ==
  /\ CheckinClassified
  /\ ~JsonTyped(resp)
  /\ ~AlreadyPhrase(BodyText(resp.body))
  /\ ~SuccessPhrase(BodyText(resp.body))
  /\ appended.status = TWO_FA

\* the fixed endpoint list, in its order
ProbeList ==
  << "https://panel.freecloud.ltd/clientarea.php?action=qiandao",
     "https://panel.freecloud.ltd/clientarea.php?action=checkin",
     "https://panel.freecloud.ltd/index.php?m=checkin",
     "https://panel.freecloud.ltd/index.php?m=signin",
     "https://panel.freecloud.ltd/index.php?rp=/checkin",
     "https://panel.freecloud.ltd/index.php?rp=/signin" >>

\* t matches the relevance pattern
Relevant(t) ==
  \/ HasPhrase(t, zh_qiandao)
  \/ HasPhrase(t, zh_chenggong)
  \/ HasPhrase(t, zh_jifen)
  \/ HasPhrase(LowerSeq(t), Chars("checkin"))
  \/ HasPhrase(LowerSeq(t), Chars("check-in"))

\* the probe in hand returned and qualifies
ProbeQualifies == http.st = "ret" /\ resp.status = 200 /\ Relevant(BodyText(resp.body))

\* the k-th request of the check-in flow is the GET of the (k-1)-th endpoint
IsProbe(k) == trace[k].method = "GET" /\ trace[k].url = ProbeList[k - 1]

\* what holds of the requests of perform_checkin in every state
ProbeOrder ==
  /\ pc = "checkin_probe" =>
       /\ probe \in 1..Len(ProbeList)
       /\ Len(trace) = 1 + probe
       /\ \A k \in 2..Len(trace) : IsProbe(k)
  /\ (pc = "checkin_act" \/ (pc = "loop" /\ from = "checkin_act")) =>
       /\ Len(trace) \in 2..(2 + Len(ProbeList))
       /\ \A k \in 2..(Len(trace) - 1) : IsProbe(k)
       /\ Len(trace) > 2 =>
            /\ trace[Len(trace)].method = "GET"
            /\ trace[Len(trace)].url = ProbeList[Len(trace) - 2]
            /\ action.method = "GET"
            /\ action.url = ProbeList[Len(trace) - 2]
  /\ (pc = "loop" /\ from = "checkin_probe") =>
       /\ Len(trace) = 1 + Len(ProbeList)
       /\ \A k \in 2..Len(trace) : IsProbe(k)
       /\ ~ProbeQualifies
       /\ appended.status = FAILED
       /\ appended.detail = "Check-in entry not found"

\* what every step of perform_checkin's discovery does
ProbeStep ==
  /\ (pc = "checkin_ca" /\ http.st = "ret") =>
       IF _find_checkin_action_in_html(DEFAULT_BASE_URL, resp.body) # NoAction
       THEN pc' = "checkin_act" /\ Len(trace') = 2
       ELSE pc' = "checkin_probe" /\ http'.url = ProbeList[1]
  /\ (pc = "checkin_probe" /\ http.st \in {"ret", "exc"}) =>
       IF ProbeQualifies
       THEN pc' = "checkin_act" /\ http'.method = "GET" /\ http'.url = ProbeList[probe]
       ELSE IF probe < Len(ProbeList)
       THEN pc' = "checkin_probe" /\ probe' = probe + 1 /\ http'.url = ProbeList[probe + 1]
       ELSE pc' = "loop" /\ trace' = trace
  /\ pc = "checkin_act" => pc' \in {"checkin_act", "loop"}

\* C13: with no action in the dashboard markup the endpoints are probed in
\* their listed order; the first probe that returns status 200 with a
\* relevant body is adopted as a GET action and nothing is probed after it; a
\* probe that does not qualify or whose request raised is followed by the
\* next endpoint; after the last one the result is FAILED "Check-in entry not
\* found" with no action request; with an action in the markup no probe is
\* issued.
C13_ProbingOrder == []ProbeOrder /\ [][ProbeStep]_vars

\* two endpoints did not qualify, the third did and is executed as a GET
C13_Witness ==
  /\ pc = "checkin_act"
  /\ http.st = "run"
  /\ Len(trace) = 5
  /\ action = [method |-> "GET", url |-> ProbeList[3], data |-> <<>>]
  /\ http.url = ProbeList[3]

\* the dashboard ca of perform_checkin is in hand and discovery has run on it
Discovered == pc \in {"checkin_found", "checkin_act"}

\* the marker links with a target and the marker forms with an action among
\* the elements of a page, in document order
MarkerLinks(nodes) ==
  SelectSeq(nodes, LAMBDA n : n.tag = "a" /\ HasPhrase(n.text, zh_qiandao) /\ n.href # "")
MarkerForms(nodes) ==
  SelectSeq(nodes, LAMBDA n : n.tag = "form" /\ HasPhrase(n.text, zh_qiandao) /\ n.href # "")

\* the absolute URL of a target on the default site
Resolved(ref) == "https://panel.freecloud.ltd" \o ref

\* C14: with the structured parser, a dashboard with a marker link that has a
\* target yields the GET descriptor of the first such link, wherever its
\* marker forms stand; a descriptor that points to a form's action is
\* yielded only when there is no such link.
C14_LinkBeforeForm ==
  (Discovered /\ HAVE_BS4) =>
     LET ls == MarkerLinks(resp.body.nodes)
         fs == MarkerForms(resp.body.nodes)
     IN  /\ (ls # <<>> /\ fs # <<>>) =>
              action = [method |-> "GET", url |-> Resolved(ls[1].href), data |-> <<>>]
         /\ (\E k \in 1..Len(fs) : action.url = Resolved(fs[k].href)) => ls = <<>>
         /\ ls # <<>> => action.method = "GET" /\ action.url = Resolved(ls[1].href)

\* a marker form stands before the marker link, and the link was chosen and
\* requested
C14_Witness ==
  /\ pc = "checkin_act"
  /\ HAVE_BS4
  /\ Len(resp.body.nodes) = 2
  /\ resp.body.nodes[1].tag = "form"
  /\ MarkerForms(resp.body.nodes) # <<>>
  /\ MarkerLinks(resp.body.nodes) # <<>>
  /\ http.method = "GET"
  /\ http.url = Resolved("/qd.php")

\* C15 as stated, for the structured parse: every descriptor has method GET
\* or POST, and the descriptor of a marker form (no marker link standing
\* before it) is requested as a POST whose data holds the value of every
\* named input of the form, whatever the form's method attribute.
C15_FormExecutedAsPost ==
  (Discovered /\ HAVE_BS4) =>
     LET ls == MarkerLinks(resp.body.nodes)
         fs == MarkerForms(resp.body.nodes)
     IN  /\ action # NoAction => action.method \in {"GET", "POST"}
         /\ (pc = "checkin_act" /\ ls = <<>> /\ fs # <<>>) =>
              /\ http.method = "POST"
              /\ http.url = Resolved(fs[1].href)
              /\ \A k \in 1..Len(fs[1].inputs) :
                   fs[1].inputs[k].name # "" =>
                     /\ fs[1].inputs[k].name \in DOMAIN http.data
                     /\ http.data[fs[1].inputs[k].name] = fs[1].inputs[k].value

\* the non-empty values of the inputs named token on a page
PageTokens(nodes) ==
  LET toks == SelectSeq(AllInputs(nodes), LAMBDA inp : inp.name = "token" /\ inp.value # "")
  IN  {toks[k].value : k \in 1..Len(toks)}

\* the form data d holds a usable token
UsableToken(d) == "token" \in DOMAIN d /\ d["token"] # ""

\* C16 as stated: a POST whose descriptor lacks a usable token submits a
\* token of the dashboard whenever the dashboard holds a non-empty one; a
\* usable token of the descriptor is submitted as it is; a GET submits no
\* data.
C16_TokenAttached ==
  pc = "checkin_act" =>
     /\ (http.method = "POST" /\ ~UsableToken(action.data)
           /\ PageTokens(resp.body.nodes) # {}) =>
          /\ "token" \in DOMAIN http.data
          /\ http.data["token"] \in PageTokens(resp.body.nodes)
     /\ (http.method = "POST" /\ UsableToken(action.data)) =>
          /\ "token" \in DOMAIN http.data
          /\ http.data["token"] = action.data["token"]
     /\ http.method = "GET" => http.data = <<>>

\* C17 as stated, on the dashboard perform_checkin searched without the
\* structured parser: the extractor returns the value of an input named token
\* that has a non-empty value, however the input is written, and nothing
\* when the page has no such input.
C17_RegexFindsToken ==
  (Discovered /\ ~HAVE_BS4) =>
     IF PageTokens(resp.body.nodes) # {}
     THEN _extract_csrf_token_from_html(resp.body) \in PageTokens(resp.body.nodes)
     ELSE _extract_csrf_token_from_html(resp.body) = ""

\* C18 as stated: when the response to the executed action is JSON-typed,
\* perform_checkin returns SUCCESS only if the body is a JSON object whose
\* message matches a success pattern and no already pattern, or one of whose
\* fields success/ok/result is truthy.
C18_JsonSuccessOnlyIfSaid ==
  (CheckinClassified /\ JsonTyped(resp) /\ appended.status = SUCCESS) =>
     /\ resp.body.kind = "dict"
     /\ LET msg == json_msg(resp.body.pairs)
        IN  \/ /\ msg.t = "str"
               /\ re_search_any(json_success, msg.s, TRUE)
               /\ ~re_search_any(json_already, msg.s, TRUE)
            \/ \E k \in {"success", "ok", "result"} : GetTruthy(resp.body.pairs, k)

\* entry i of the list is an account whose email or password is missing or blank
Blank(i) ==
  /\ ACCOUNTS.list[i].record
  /\ \/ Strip(Chars(ACCOUNTS.list[i].email)) = <<>>
     \/ Strip(Chars(ACCOUNTS.list[i].password)) = <<>>

\* the entries the loop has taken up so far
Started == 1..(IF pc \in FlowPcs THEN idx ELSE idx - 1)

AccountList ==
  /\ ACCOUNTS.kind = "array"
  /\ \A i \in 1..Len(ACCOUNTS.list) : ACCOUNTS.list[i].record

\* perform_checkin is running for the account at idx, or has just ended
InCheckin == pc \in CheckinPcs \/ (pc = "loop" /\ from \in CheckinPcs)

\* the logical requests issued so far for the account of the iteration: those
\* of the running flow and, in perform_checkin, the login requests before it
\* (each judged login response is one entry of seen)
Requests == IF InCheckin THEN Len(seen) + Len(trace) ELSE Len(trace)

\* the resource bounds in every state: at most three login requests, at most
\* eight check-in requests (dashboard, six probes, one action), at most eleven
\* for the account, and at most retries transport attempts for a request
RequestBounds ==
  /\ Len(attempts) <= retries
  /\ pc \in LoginPcs => Len(trace) <= 3
  /\ InCheckin => /\ Len(seen) = 3
                  /\ Len(trace) <= 2 + Len(ProbeList)
                  /\ \A k \in 2..(Len(trace) - 1) : IsProbe(k)
  /\ Requests <= 11

\* a run on an array of account records does not die, and when it has ended it
\* has gone through the summary: one result per account and the exit code
\* computed from them
EndsInSummary ==
  AccountList =>
     /\ pc # "crashed"
     /\ pc = "summary" => Len(results) = Len(ACCOUNTS.list)
     /\ pc = "done" => /\ Len(results) = Len(ACCOUNTS.list)
                       /\ rc = exit_code(results)
                       /\ rc \in {0, 1}

====
